---- MODULE Spec2Model ----
(***************************************************************************)
(* The threat ingestion pipeline of IcarusCore-Sentinel: the five          *)
(* DataProcessor.process_*_data operations over the flat threats file, the *)
(* actor catalogue merge, and update_threat_data, which runs them in the   *)
(* order MITRE, CISA, RSS, OTX, Shodan.                                    *)
(*                                                                         *)
(* Strings that the code only copies or compares for equality are TLA+     *)
(* strings.  A date string is compared by the sort of the retention step,  *)
(* so it is a tuple of character codes and LexLess is Python's str.__lt__. *)
(***************************************************************************)
EXTENDS Naturals, Sequences, FiniteSets, TLC

VARIABLES
    threatsFile,   \* content of Config.THREATS_FILE: the persisted list of threats
    actorsFile,    \* content of Config.ACTORS_FILE: the persisted list of actors
    toolsFile,     \* content of Config.TOOLS_FILE: the persisted list of tools
    response,      \* the response a route handler of app.py sent last
    pc,            \* pc[r]: the source run r of update_threat_data is at, or "idle"
    phase,         \* phase[r]: "fetch" before the adapter call, "merge" once
                   \* process_*_data has loaded existing_threats
    existing,      \* existing[r]: the local existing_threats of run r's process_*_data
    started,       \* number of overlapping runs started so far
    cycle,         \* history of run r's current cycle (see NoCycle)
    last           \* history of the last process_*_data call (see NoCall)

vars == <<threatsFile, actorsFile, toolsFile, response, pc, phase, existing, started,
          cycle, last>>

----------------------------------------------------------------------------
(* Bounds of the model *)

\* retention cap of process_rss_data (existing_threats[:1000]), scaled down
RssCap == 1
\* longest batch an adapter hands to an operation besides the over-cap RSS batch
MaxBatch == 2
\* the merged collection of an operation is explored up to this length
MaxThreats == 3
\* overlapping runs of update_threat_data are explored up to this many
MaxRuns == 2

\* retention cap of process_shodan_data (existing_threats[:2000]): twice the
\* RSS cap in the source, kept above it here
ShodanCap == RssCap + 1

Runs == {"scheduler", "request"}
Sources == <<"mitre", "cisa", "rss", "otx", "shodan">>

----------------------------------------------------------------------------
(* Strings *)

Min(a, b) == IF a < b THEN a ELSE b

\* Python's < on str: lexicographic by code point, a proper prefix is smaller.
RECURSIVE LexLess(_, _)
LexLess(a, b) ==
    IF b = <<>> THEN FALSE
    ELSE IF a = <<>> THEN TRUE
    ELSE IF Head(a) # Head(b) THEN Head(a) < Head(b)
    ELSE LexLess(Tail(a), Tail(b))

\* the join keeping the first element only
Join_first(list) == IF list = <<>> THEN "" ELSE list[1]

\* ', '.join(list)
RECURSIVE Join(_)
Join(list) ==
    IF list = <<>> THEN ""
    ELSE IF Len(list) = 1 THEN list[1]
    ELSE list[1] \o ", " \o Join(Tail(list))

Range(s) == {s[i] : i \in DOMAIN s}

\* all sequences over S of length at most n
SeqUpTo(S, n) == UNION {[1..k -> S] : k \in 0..n}

----------------------------------------------------------------------------
(* Inputs: what the adapters can hand to the operations *)

\* the date strings "", "10", "2", "5" as the code points of their digits:
\* "" < "10" < "2" < "5" as Python compares them
Dates == {<<>>, <<1, 0>>, <<2>>, <<5>>}

\* a dict key that is absent, so that dict.get returns its default
Missing == "<missing>"
Get(value, default) == IF value = Missing THEN default ELSE value

\* A technique of mitre_data['techniques'].  bad: 'tactics' is None, so that
\* ', '.join(technique.get('tactics', [])) raises TypeError.
Technique(i, t, d, b) == [id |-> i, tactics |-> t, date |-> d, bad |-> b]
Techniques ==
    {Technique("T1566.001", <<"initial-access">>, <<1, 0>>, FALSE),
     Technique("T1566.001", <<"initial-access", "execution">>, <<2>>, FALSE),
     Technique("T1566.001", <<>>, <<2>>, TRUE)}

\* A record of cisa_data.  bad: 'tags' is None, so that
\* alert.get('tags', []) + ['cisa', 'alert'] raises TypeError.
Alert(i, d, sev, b) ==
    [id |-> i, date |-> d, severity |-> sev, tags |-> <<>>, bad |-> b]
Alerts ==
    {Alert("otx-T1566.001", <<1, 0>>, Missing, FALSE),
     Alert("T1566.001", <<2>>, "High", TRUE)}

\* A record of rss_data.  bad: 'tags' is None.
Article(i, d, t, b) ==
    [id |-> i, date |-> d, source |-> "BleepingComputer", threat_level |-> Missing,
     tags |-> t, bad |-> b]
TaggedArticles ==
    {Article("CVE-1", <<1, 0>>, <<"malware">>, FALSE),
     Article("T1566.001", <<2>>, <<"ddos", "malware">>, FALSE),
     Article("T1566.001", <<>>, <<"malware">>, FALSE)}
Articles ==
    TaggedArticles
    \cup {Article("CVE-1", <<5>>, <<"ddos">>, FALSE),
          Article("CVE-1", <<2>>, <<>>, TRUE)}

\* A record of otx_data.  bad: 'tags' is None (the pulse's JSON holds null).
Pulse(i, d, b) ==
    [id |-> i, date |-> d, threat_level |-> Missing, tags |-> <<>>, bad |-> b]
Pulses == {Pulse("T1566.001", <<1, 0>>, FALSE), Pulse("T1566.001", <<2>>, TRUE)}

\* A record of shodan_data.  bad: 'tags' is None.
Vuln(i, d, b) ==
    [id |-> i, date |-> d, severity |-> Missing, tags |-> <<>>, bad |-> b]
Vulns == {Vuln("T1566.001", <<>>, FALSE), Vuln("T1566.001", <<2>>, TRUE)}

DistinctIds(batch) ==
    \A i, j \in DOMAIN batch : i # j => batch[i].id # batch[j].id
\* RSS batches longer than the cap: every article tagged malware, the dates
\* pairwise distinct, rising or falling along the batch
OverCapBatches ==
    {b \in [1..(RssCap + 1) -> TaggedArticles] :
        \/ \A i \in 1..RssCap : LexLess(b[i].date, b[i + 1].date)
        \/ \A i \in 1..RssCap : LexLess(b[i + 1].date, b[i].date)}

\* the batches each operation is called with.  update_threat_data calls an
\* operation only with a truthy value: mitre_data is a dict (its techniques may
\* be empty), the others are non-empty lists.
Batches(src) ==
    CASE src = "mitre"  -> SeqUpTo(Techniques, MaxBatch)
      [] src = "cisa"   -> SeqUpTo(Alerts, MaxBatch) \ {<<>>}
      [] src = "rss"    -> (SeqUpTo(Articles, MaxBatch) \ {<<>>}) \cup OverCapBatches
      [] src = "otx"    -> SeqUpTo(Pulses, MaxBatch) \ {<<>>}
      [] src = "shodan" -> SeqUpTo(Vulns, MaxBatch) \ {<<>>}

----------------------------------------------------------------------------
(* Normalisation: the threat dict each operation builds from a raw record *)

Threat(i, src, d, tac, sev, tg) ==
    [id |-> i, source |-> src, date |-> d, tactic |-> tac, severity |-> sev,
     tags |-> tg]

mitre_threat(technique) ==
    Threat(technique.id, "MITRE ATT&CK", technique.date, Join(technique.tactics),
           "Medium", <<"mitre", "technique">> \o technique.tactics)

cisa_threat(alert) ==
    Threat(alert.id, "CISA", alert.date, "Alert", Get(alert.severity, "Medium"),
           alert.tags \o <<"cisa", "alert">>)

\* the RSS threat with the default severity of the other operations
rss_threat_medium(article) ==
    Threat(article.id, article.source, article.date, "News/Intel",
           Get(article.threat_level, "Medium"), article.tags \o <<"news">>)

rss_threat(article) ==
    Threat(article.id, article.source, article.date, "News/Intel",
           Get(article.threat_level, "Low"), article.tags \o <<"news">>)

otx_threat(pulse) ==
    Threat("otx-" \o pulse.id, "AlienVault OTX", pulse.date, "Intelligence",
           Get(pulse.threat_level, "Medium"), pulse.tags \o <<"otx", "pulse">>)

shodan_threat(vuln) ==
    Threat(vuln.id, "Shodan", vuln.date, "Discovery", Get(vuln.severity, "Medium"),
           vuln.tags \o <<"shodan", "network-intelligence">>)

----------------------------------------------------------------------------
(* Deduplication, admission, retention *)

\* the check looking at the first record only
ExistsIdSource_first(threat, threats) ==
    /\ threats # <<>>
    /\ threats[1].id = threat.id /\ threats[1].source = threat.source

\* any(t.get('id') == threat['id'] and t.get('source') == <source> for t in ...)
ExistsIdSource(threat, threats) ==
    \E k \in DOMAIN threats :
        threats[k].id = threat.id /\ threats[k].source = threat.source

\* any(t.get('id') == threat['id'] for t in existing_threats)
ExistsId(threat, threats) ==
    \E k \in DOMAIN threats : threats[k].id = threat.id

\* the filter admitting any article that carries a tag
HasRelevantTag_any(article) == article.tags # <<>>

AllowedTags == {"malware", "ransomware", "vulnerability", "apt", "phishing"}

\* any(tag in [...] for tag in article.get('tags', []))
HasRelevantTag(article) == \E k \in DOMAIN article.tags : article.tags[k] \in AllowedTags

\* list.sort(key=lambda x: x.get('date', ''), reverse=True): stable, so records
\* with equal dates keep their order
\* the insertion of a sort that is not stable: x goes before the records of
\* its date
RECURSIVE InsertByDate_unstable(_, _)
InsertByDate_unstable(sorted, x) ==
    IF sorted = <<>> THEN <<x>>
    ELSE IF ~LexLess(x.date, Head(sorted).date) THEN <<x>> \o sorted
    ELSE <<Head(sorted)>> \o InsertByDate_unstable(Tail(sorted), x)

RECURSIVE InsertByDate(_, _)
InsertByDate(sorted, x) ==
    IF sorted = <<>> THEN <<x>>
    ELSE IF LexLess(Head(sorted).date, x.date) THEN <<x>> \o sorted
    ELSE <<Head(sorted)>> \o InsertByDate(Tail(sorted), x)

RECURSIVE SortByDateDesc(_)
SortByDateDesc(threats) ==
    IF threats = <<>> THEN <<>>
    ELSE InsertByDate(SortByDateDesc(SubSeq(threats, 1, Len(threats) - 1)),
                      threats[Len(threats)])

\* the truncation without the sort
Retain_unsorted(threats, cap) == SubSeq(threats, 1, Min(cap, Len(threats)))

\* existing_threats[:cap] after the sort
Retain(threats, cap) == SubSeq(SortByDateDesc(threats), 1, Min(cap, Len(threats)))

----------------------------------------------------------------------------
(* The merge loops of the five operations: for record in batch: build the    *)
(* threat, append it unless the operation's check finds it                   *)

\* the loop overwriting the record it finds with the candidate
RECURSIVE mitre_merge_update(_, _)
mitre_merge_update(threats, techniques) ==
    IF techniques = <<>> THEN threats
    ELSE LET threat == mitre_threat(Head(techniques))
         IN mitre_merge_update(
                IF ~ExistsIdSource(threat, threats)
                  THEN Append(threats, threat)
                  ELSE [k \in DOMAIN threats |->
                          IF threats[k].id = threat.id /\ threats[k].source = threat.source
                            THEN threat ELSE threats[k]],
                Tail(techniques))

RECURSIVE mitre_merge(_, _)
mitre_merge(threats, techniques) ==
    IF techniques = <<>> THEN threats
    ELSE LET threat == mitre_threat(Head(techniques))
         IN mitre_merge(IF ~ExistsIdSource(threat, threats)
                          THEN Append(threats, threat) ELSE threats,
                        Tail(techniques))

RECURSIVE cisa_merge(_, _)
cisa_merge(threats, cisa_data) ==
    IF cisa_data = <<>> THEN threats
    ELSE LET threat == cisa_threat(Head(cisa_data))
         IN cisa_merge(IF ~ExistsIdSource(threat, threats)
                         THEN Append(threats, threat) ELSE threats,
                       Tail(cisa_data))

RECURSIVE rss_merge(_, _)
rss_merge(threats, rss_data) ==
    IF rss_data = <<>> THEN threats
    ELSE LET threat == rss_threat(Head(rss_data))
         IN rss_merge(IF ~ExistsId(threat, threats) /\ HasRelevantTag(Head(rss_data))
                        THEN Append(threats, threat) ELSE threats,
                      Tail(rss_data))

RECURSIVE otx_merge(_, _)
otx_merge(threats, otx_data) ==
    IF otx_data = <<>> THEN threats
    ELSE LET threat == otx_threat(Head(otx_data))
         IN otx_merge(IF ~ExistsId(threat, threats)
                        THEN Append(threats, threat) ELSE threats,
                      Tail(otx_data))

RECURSIVE shodan_merge(_, _)
shodan_merge(threats, shodan_data) ==
    IF shodan_data = <<>> THEN threats
    ELSE LET threat == shodan_threat(Head(shodan_data))
         IN shodan_merge(IF ~ExistsIdSource(threat, threats)
                           THEN Append(threats, threat) ELSE threats,
                         Tail(shodan_data))

\* the list an operation has built when it reaches its sort or save
Merged(src, threats, batch) ==
    CASE src = "mitre"  -> mitre_merge(threats, batch)
      [] src = "cisa"   -> cisa_merge(threats, batch)
      [] src = "rss"    -> rss_merge(threats, batch)
      [] src = "otx"    -> otx_merge(threats, batch)
      [] src = "shodan" -> shodan_merge(threats, batch)

\* every operation sorting and truncating before its save
ToSave_capped(src, threats, batch) ==
    Retain(Merged(src, threats, batch), IF src = "shodan" THEN ShodanCap ELSE RssCap)

\* the list an operation hands to _save_json_file
ToSave(src, threats, batch) ==
    CASE src = "rss"    -> Retain(rss_merge(threats, batch), RssCap)
      [] src = "shodan" -> Retain(shodan_merge(threats, batch), ShodanCap)
      [] OTHER          -> Merged(src, threats, batch)

\* building a threat from a bad record raises inside the loop; the operation's
\* except clause prints the error and the operation returns without saving
Raises(batch) == \E i \in DOMAIN batch : batch[i].bad

----------------------------------------------------------------------------
(* The actor catalogue of _process_mitre_actors *)

\* An actor record.  Keys that a record does not carry hold Missing.
Actor(i, n, al, tg, tq, tl, so, ac) ==
    [id |-> i, name |-> n, aliases |-> al, targets |-> tg, techniques |-> tq,
     tools |-> tl, sophistication |-> so, attribution_confidence |-> ac]

\* the catalogue of _process_mitre_actors: no aliases, tools, sophistication
\* or attribution_confidence
known_actors ==
    << Actor("apt1", "APT1", Missing, <<"Government", "Military", "Private Companies">>,
             <<"Spear Phishing", "Remote Access Tools", "Data Exfiltration">>,
             Missing, Missing, Missing),
       Actor("apt28", "APT28", Missing, <<"Government", "Military", "Media">>,
             <<"Zero-day Exploits", "Spear Phishing", "Credential Harvesting">>,
             Missing, Missing, Missing),
       Actor("apt29", "APT29", Missing, <<"Government", "Healthcare", "Technology">>,
             <<"Supply Chain Attacks", "Living off the Land", "Steganography">>,
             Missing, Missing, Missing),
       Actor("lazarus", "Lazarus Group", Missing,
             <<"Financial", "Cryptocurrency", "Entertainment">>,
             <<"Destructive Malware", "Financial Theft", "Ransomware">>,
             Missing, Missing, Missing) >>

RECURSIVE actors_merge(_, _)
actors_merge(actors, catalogue) ==
    IF catalogue = <<>> THEN actors
    ELSE actors_merge(IF ~\E k \in DOMAIN actors : actors[k].id = Head(catalogue).id
                        THEN Append(actors, Head(catalogue)) ELSE actors,
                      Tail(catalogue))

----------------------------------------------------------------------------
(* The flat-file store *)

\* content of a file that json.load cannot parse (a write that failed midway)
Unparseable == <<[unparseable |-> TRUE]>>

\* no file at the path: os.path.exists is false, open(..., 'r') raises
Absent == <<[absent |-> TRUE]>>

\* a save that keeps what the file holds beyond the data it is given
_save_json_file_merging(file, data, outcome) ==
    CASE outcome = "written" ->
             data \o SelectSeq(IF file = Absent \/ file = Unparseable THEN <<>> ELSE file,
                               LAMBDA t : \A k \in DOMAIN data : data[k] # t)
      [] outcome = "failed"  -> file
      [] outcome = "torn"    -> Unparseable

\* the parsed content, returned as it is   (no handling of a missing or bad file)
_load_json_file_raw(file) == file

\* a load that handles the missing file only
_load_json_file_strict(file) == IF file = Absent THEN <<>> ELSE file

\* _load_json_file: [] when the file does not exist, [] when open or json.load
\* raises, the parsed list otherwise
_load_json_file(file) == IF file = Absent \/ file = Unparseable THEN <<>> ELSE file

\* how a call of _save_json_file can end: the dump completed; os.makedirs or
\* open raised and the file is as it was; the dump raised after open(filepath,
\* 'w') had truncated the file.  Either exception is printed, not raised.
SaveOutcomes == {"written", "failed", "torn"}

_save_json_file(file, data, outcome) ==
    CASE outcome = "written" -> data
      [] outcome = "failed"  -> file
      [] outcome = "torn"    -> Unparseable

----------------------------------------------------------------------------
(* update_threat_data and the operations it calls *)

Next_source(src) ==
    CASE src = "mitre" -> "cisa"
      [] src = "cisa"  -> "rss"
      [] src = "rss"   -> "otx"
      [] src = "otx"   -> "shodan"
      [] src = "shodan" -> "done"

\* the values of 'source' on the threats each operation builds; those of RSS
\* are the names of Config.RSS_FEEDS
Stamp(src) ==
    CASE src = "mitre"  -> {"MITRE ATT&CK"}
      [] src = "cisa"   -> {"CISA"}
      [] src = "rss"    -> {"BleepingComputer", "Krebs on Security", "The Hacker News"}
      [] src = "otx"    -> {"AlienVault OTX"}
      [] src = "shodan" -> {"Shodan"}

RecordsOf(src, threats) == {t \in Range(threats) : t.source \in Stamp(src)}

\* the sources with a record in `before` that is not in `after`
Lost(before, after) ==
    {src \in Range(Sources) : ~(RecordsOf(src, before) \subseteq RecordsOf(src, after))}

\* the sources with a record that was saved after `loaded` was read (it is in
\* `before` and not in `loaded`) and that is not in `after`
Overwritten(loaded, before, after) ==
    {src \in Range(Sources) :
        \E t \in RecordsOf(src, before) : t \notin Range(loaded) /\ t \notin Range(after)}

\* id and source of the records the retention step removed from `merged`
Evicted(merged, data) == {<<t.id, t.source>> : t \in Range(merged) \ Range(data)}

\* history of a run's cycle: the sources update_threat_data reached, those
\* whose adapter returned no data, the first source whose adapter or operation
\* raised, and the sources a record of which left the threats file
\* (unsaved: whether a save of the threats file failed)
NoCycle == [fetched |-> {}, nodata |-> {}, raised |-> "none", lost |-> {}, unsaved |-> FALSE]
\* history of the last process_*_data call that finished: how it ended, how
\* many threats its loop appended, how many its retention step dropped
NoCall == [op |-> "none", outcome |-> "none", appended |-> 0, dropped |-> 0]

\* the response of api_refresh; its except clause is never entered, because
\* update_threat_data catches every exception itself
api_refresh == [route |-> "api_refresh", status |-> 200, body |-> [status |-> "success"]]

NoResponse == [route |-> "none", status |-> 0, body |-> [status |-> "none"]]

Init ==
    /\ threatsFile = <<>>
    /\ actorsFile = <<>>
    /\ toolsFile = <<>>
    /\ response = NoResponse
    /\ pc = [r \in Runs |-> "idle"]
    /\ phase = [r \in Runs |-> "fetch"]
    /\ existing = [r \in Runs |-> <<>>]
    /\ started = 0
    /\ cycle = [r \in Runs |-> NoCycle]
    /\ last = NoCall

\* update_threat_data is entered: by the scheduler's job, or by api_refresh,
\* whose request then has no response yet.
\* overlap: whether a run may start while another is in progress.
StartCycle(r, overlap) ==
    /\ pc[r] = "idle"
    /\ IF overlap THEN started < MaxRuns ELSE \A q \in Runs : pc[q] = "idle"
    /\ started' = IF overlap THEN started + 1 ELSE started
    /\ pc' = [pc EXCEPT ![r] = "mitre"]
    /\ cycle' = [cycle EXCEPT ![r] = NoCycle]
    /\ response' = IF r = "request" THEN NoResponse ELSE response
    /\ UNCHANGED <<threatsFile, actorsFile, toolsFile, phase, existing, last>>

\* the adapter of the source returns None or an empty list, or the API key of
\* OTX or Shodan is not set: `if <data>:` is false and the operation is skipped
NoData(r, track) ==
    /\ pc[r] \in Range(Sources) /\ phase[r] = "fetch"
    /\ pc' = [pc EXCEPT ![r] = Next_source(pc[r])]
    /\ cycle' = IF track = "cycle"
                  THEN [cycle EXCEPT ![r].fetched = @ \cup {pc[r]},
                                     ![r].nodata = @ \cup {pc[r]}]
                  ELSE cycle
    /\ UNCHANGED <<threatsFile, actorsFile, toolsFile, response, phase, existing, started,
                   last>>

\* rss_service.fetch_all_feeds raises: all_articles.sort(key=... 'published_parsed')
\* is outside any try, and compares None keys when entries carry no parsed date.
\* The exception reaches the except clause of update_threat_data, which ends the run.
FetchRaises(r, track) ==
    /\ pc[r] = "rss" /\ phase[r] = "fetch"
    /\ pc' = [pc EXCEPT ![r] = "done"]
    /\ cycle' = IF track = "cycle"
                  THEN [cycle EXCEPT ![r].fetched = @ \cup {pc[r]},
                                     ![r].raised = IF @ = "none" THEN pc[r] ELSE @]
                  ELSE IF track = "refresh"
                  THEN [cycle EXCEPT ![r].raised = IF @ = "none" THEN pc[r] ELSE @]
                  ELSE cycle
    /\ UNCHANGED <<threatsFile, actorsFile, toolsFile, response, phase, existing, started,
                   last>>

\* the adapter returns data, the operation is called and loads existing_threats
LoadExisting(r, track) ==
    /\ pc[r] \in Range(Sources) /\ phase[r] = "fetch"
    /\ phase' = [phase EXCEPT ![r] = "merge"]
    /\ existing' = [existing EXCEPT ![r] = _load_json_file(threatsFile)]
    /\ cycle' = IF track = "cycle"
                  THEN [cycle EXCEPT ![r].fetched = @ \cup {pc[r]}]
                  ELSE cycle
    /\ UNCHANGED <<threatsFile, actorsFile, toolsFile, response, pc, started, last>>

\* the rest of process_<src>_data after the load: the merge loop, the retention
\* step of RSS and Shodan, the save
Process(r, src, batch, outcome, track) ==
    /\ pc[r] = src /\ phase[r] = "merge"
    /\ LET merged == Merged(src, existing[r], batch)
           data == ToSave(src, existing[r], batch)
       IN /\ Len(merged) <= MaxThreats
          /\ threatsFile' = IF Raises(batch) THEN threatsFile
                            ELSE _save_json_file(threatsFile, data, outcome)
          /\ last' = IF track = "call"
                       THEN [op |-> src,
                             outcome |-> IF Raises(batch) THEN "raised" ELSE outcome,
                             appended |-> Len(merged) - Len(existing[r]),
                             dropped |-> Len(merged) - Len(data)]
                       ELSE IF track = "evict" /\ ~Raises(batch) /\ outcome = "written"
                       THEN [evicted |-> last.evicted \cup Evicted(merged, data)]
                       ELSE last
    /\ pc' = [pc EXCEPT ![r] = Next_source(src)]
    /\ phase' = [phase EXCEPT ![r] = "fetch"]
    /\ existing' = [existing EXCEPT ![r] = <<>>]
    /\ cycle' = IF track = "cycle"
                  THEN [cycle EXCEPT
                          ![r].raised = IF Raises(batch) /\ @ = "none" THEN src ELSE @,
                          ![r].lost = @ \cup Lost(_load_json_file(threatsFile),
                                                  _load_json_file(threatsFile'))]
                  ELSE IF track = "refresh"
                  THEN [cycle EXCEPT
                          ![r].raised = IF Raises(batch) /\ @ = "none" THEN src ELSE @,
                          ![r].unsaved = @ \/ (~Raises(batch) /\ outcome # "written")]
                  ELSE IF track = "overlap" /\ ~Raises(batch) /\ outcome = "written"
                  THEN [cycle EXCEPT
                          ![r].lost = @ \cup Overwritten(existing[r],
                                                         _load_json_file(threatsFile),
                                                         _load_json_file(threatsFile'))]
                  ELSE cycle
    /\ UNCHANGED <<toolsFile, response, started>>

\* the actor catalog merged and saved whether or not the technique loop raised
_process_mitre_actors_always(batch, outcome) ==
    actorsFile' = _save_json_file(actorsFile,
                                  actors_merge(_load_json_file(actorsFile), known_actors),
                                  outcome)

\* _process_mitre_actors: runs after the threats save of process_mitre_data,
\* not at all when the technique loop raised
_process_mitre_actors(batch, outcome) ==
    actorsFile' =
        IF Raises(batch) THEN actorsFile
        ELSE _save_json_file(actorsFile,
                             actors_merge(_load_json_file(actorsFile), known_actors),
                             outcome)

process_mitre_data(r, track) ==
    \E batch \in Batches("mitre"), outcome, actors_outcome \in SaveOutcomes :
        /\ Process(r, "mitre", batch, outcome, track)
        /\ _process_mitre_actors(batch, actors_outcome)

process_cisa_data(r, track) ==
    \E batch \in Batches("cisa"), outcome \in SaveOutcomes :
        Process(r, "cisa", batch, outcome, track) /\ UNCHANGED actorsFile

process_rss_data(r, track) ==
    \E batch \in Batches("rss"), outcome \in SaveOutcomes :
        Process(r, "rss", batch, outcome, track) /\ UNCHANGED actorsFile

process_otx_data(r, track) ==
    \E batch \in Batches("otx"), outcome \in SaveOutcomes :
        Process(r, "otx", batch, outcome, track) /\ UNCHANGED actorsFile

process_shodan_data(r, track) ==
    \E batch \in Batches("shodan"), outcome \in SaveOutcomes :
        Process(r, "shodan", batch, outcome, track) /\ UNCHANGED actorsFile

\* update_threat_data returns: to the scheduler, or to api_refresh, which then
\* answers jsonify({'status': 'success', ...})
FinishCycle(r) ==
    /\ pc[r] = "done"
    /\ pc' = [pc EXCEPT ![r] = "idle"]
    /\ cycle' = [cycle EXCEPT ![r] = NoCycle]
    /\ response' = IF r = "request" THEN api_refresh ELSE response
    /\ UNCHANGED <<threatsFile, actorsFile, toolsFile, phase, existing, started, last>>

\* track: which history the specification keeps, that of the calls ("call"),
\* that of the cycles ("cycle"), the failures of a cycle only ("refresh"), the
\* sources whose records a completed save overwrote ("overlap"), the records
\* that retention steps have evicted so far ("evict"), or none
Step(r, overlap, track) ==
    \/ StartCycle(r, overlap)
    \/ NoData(r, track)
    \/ FetchRaises(r, track)
    \/ LoadExisting(r, track)
    \/ process_mitre_data(r, track)
    \/ process_cisa_data(r, track)
    \/ process_rss_data(r, track)
    \/ process_otx_data(r, track)
    \/ process_shodan_data(r, track)
    \/ FinishCycle(r)

\* runs of update_threat_data one after the other, with the history of the calls
Next == Step("scheduler", FALSE, "call")
Spec == Init /\ [][Next]_vars

\* the same runs with the history of the cycles
NextCycle == Step("scheduler", FALSE, "cycle")
SpecCycle == Init /\ [][NextCycle]_vars

\* the scheduler's run and a request's run may overlap
NextOverlap == \E r \in Runs : Step(r, TRUE, "none")
SpecOverlap == Init /\ [][NextOverlap]_vars

\* the same runs with the history of the evictions
InitEvict ==
    /\ threatsFile = <<>>
    /\ actorsFile = <<>>
    /\ toolsFile = <<>>
    /\ response = NoResponse
    /\ pc = [r \in Runs |-> "idle"]
    /\ phase = [r \in Runs |-> "fetch"]
    /\ existing = [r \in Runs |-> <<>>]
    /\ started = 0
    /\ cycle = [r \in Runs |-> NoCycle]
    /\ last = [evicted |-> {}]

NextEvict == Step("scheduler", FALSE, "evict")
SpecEvict == InitEvict /\ [][NextEvict]_vars

\* the load of an operation of srcs: only the adapters of srcs return data
LoadFrom(srcs, r, track) ==
    /\ pc[r] \in srcs
    /\ LoadExisting(r, track)

\* overlapping runs in which MITRE and CISA return data, with the history of
\* what each completed save overwrote
NextLostUpdate ==
    \E r \in Runs :
        \/ StartCycle(r, TRUE)
        \/ NoData(r, "overlap")
        \/ LoadFrom({"mitre", "cisa"}, r, "overlap")
        \/ process_mitre_data(r, "overlap")
        \/ process_cisa_data(r, "overlap")
        \/ FinishCycle(r)
SpecLostUpdate == Init /\ [][NextLostUpdate]_vars

----------------------------------------------------------------------------
(* The tools collection and the scripts that create the files *)

\* A tool record.  risk_level holds Missing when the record has no such key.
Tool(i, used_by, risk_level) == [id |-> i, used_by |-> used_by, risk_level |-> risk_level]

\* the list update_tools_data writes: no 'risk_level' key
security_tools ==
    << Tool("powershell", <<"APT28", "APT29", "FIN7">>, Missing),
       Tool("mimikatz", <<"Multiple APT groups">>, Missing),
       Tool("cobalt-strike", <<"Ransomware groups", "APT groups">>, Missing) >>

\* the sample lists initialize_data.py writes
tools_data ==
    << Tool("powershell", <<"APT28", "APT29", "FIN7">>, "High"),
       Tool("mimikatz", <<"Multiple APT groups">>, "Critical"),
       Tool("cobalt-strike", <<"Ransomware groups", "APT groups">>, "High"),
       Tool("nmap", <<"Security professionals", "Threat actors">>, "Medium") >>

actors_data ==
    << Actor("apt28", "APT28", <<"Fancy Bear", "Pawn Storm", "Sofacy">>,
             <<"Government", "Military", "Media">>,
             <<"Zero-day Exploits", "Spear Phishing", "Credential Harvesting">>,
             <<"X-Agent", "Komplex", "CHOPSTICK">>, "High", "High"),
       Actor("apt29", "APT29", <<"Cozy Bear", "CozyDuke", "The Dukes">>,
             <<"Government", "Healthcare", "Technology">>,
             <<"Supply Chain Attacks", "Living off the Land", "Steganography">>,
             <<"HAMMERTOSS", "POWERDUKE", "COZYDUKE">>, "High", "High"),
       Actor("lazarus", "Lazarus Group", <<"HIDDEN COBRA", "Guardians of Peace">>,
             <<"Financial", "Cryptocurrency", "Entertainment">>,
             <<"Destructive Malware", "Financial Theft", "Ransomware">>,
             <<"WannaCry", "FALLCHILL", "HOPLIGHT">>, "High", "High") >>

\* the three calls of datetime.now().isoformat() give rising date strings
threats_data ==
    << Threat("T1566.001", "MITRE ATT&CK", <<1, 0>>, "initial-access", "High",
              <<"email", "attachment", "initial-access", "phishing">>),
       Threat("T1059.001", "MITRE ATT&CK", <<2>>, "execution", "Medium",
              <<"powershell", "execution", "windows", "scripting">>),
       Threat("CISA-2024-001", "CISA", <<5>>, "Alert", "Critical",
              <<"ransomware", "critical-infrastructure", "alert", "cisa">>) >>

NoRun == \A r \in Runs : pc[r] = "idle"

\* initialize_data.py, run by the operator while the application is not
\* updating: the three files are replaced by the sample lists
initialize_data ==
    /\ NoRun
    /\ threatsFile' = threats_data
    /\ actorsFile' = actors_data
    /\ toolsFile' = tools_data
    /\ UNCHANGED <<response, pc, phase, existing, started, cycle, last>>

\* the start of app.py run as a script: each file that does not exist is
\* created holding []
initialize_files ==
    /\ NoRun
    /\ Absent \in {threatsFile, actorsFile, toolsFile}
    /\ threatsFile' = IF threatsFile = Absent THEN <<>> ELSE threatsFile
    /\ actorsFile' = IF actorsFile = Absent THEN <<>> ELSE actorsFile
    /\ toolsFile' = IF toolsFile = Absent THEN <<>> ELSE toolsFile
    /\ UNCHANGED <<response, pc, phase, existing, started, cycle, last>>

\* DataProcessor.update_tools_data: the fixed list replaces the tools file
update_tools_data ==
    /\ NoRun
    /\ \E outcome \in SaveOutcomes :
          toolsFile' = _save_json_file(toolsFile, security_tools, outcome)
    /\ UNCHANGED <<threatsFile, actorsFile, response, pc, phase, existing, started,
                   cycle, last>>

----------------------------------------------------------------------------
(* The route handlers of app.py.  A response is the status code and the      *)
(* values handed to the template or to jsonify.                              *)

\* recent_threats[:6], json.load(f)[:6] on the home page
DashboardItems == 6
\* Config.ITEMS_PER_PAGE
ITEMS_PER_PAGE == 20

\* an empty dict: stats={} and pagination={} of the except clauses
EmptyDict == <<>>

\* with open(path, 'r') as f: json.load(f) raises: no file, or bad content
OpenRaises(file) == file = Absent \/ file = Unparseable

\* if os.path.exists(path): json.load(f) raises: bad content only
GuardedOpenRaises(file) == file = Unparseable

\* the list a guarded read starts from when the file does not exist
IfExists(file) == IF file = Absent THEN <<>> ELSE file

Take(list, n) == SubSeq(list, 1, Min(n, Len(list)))

\* one except clause around the three reads
ReadsRaise(th, ac, tl) == OpenRaises(th) \/ GuardedOpenRaises(ac) \/ GuardedOpenRaises(tl)

Respond(route, status, body) == [route |-> route, status |-> status, body |-> body]

index_response(th, ac, tl) ==
    IF ReadsRaise(th, ac, tl)
      THEN Respond("index", 200, [recent_threats |-> <<>>, actors |-> <<>>,
                                  tools |-> <<>>, stats |-> EmptyDict])
      ELSE LET shown_actors == Take(IfExists(ac), DashboardItems)
               shown_tools == Take(IfExists(tl), DashboardItems)
           IN Respond("index", 200,
                      [recent_threats |-> Retain(th, DashboardItems),
                       actors |-> shown_actors,
                       tools |-> shown_tools,
                       stats |-> [total_threats |-> Len(th),
                                  total_actors |-> Len(shown_actors),
                                  total_tools |-> Len(shown_tools)]])

\* the letters of str.lower(): the ASCII capitals and their small letters
Capitals ==
    <<"A", "B", "C", "D", "E", "F", "G", "H", "I", "J", "K", "L", "M", "N", "O", "P", "Q", "R", "S", "T", "U", "V", "W", "X", "Y", "Z">>
SmallLetters ==
    <<"a", "b", "c", "d", "e", "f", "g", "h", "i", "j", "k", "l", "m", "n", "o", "p", "q", "r", "s", "t", "u", "v", "w", "x", "y", "z">>

\* the small letter of each capital
LowerOf ==
    [c \in Range(Capitals) |-> SmallLetters[CHOOSE k \in DOMAIN Capitals : Capitals[k] = c]]

LowerChar(c) == IF c \in DOMAIN LowerOf THEN LowerOf[c] ELSE c

\* the text as it is
Lower_same(text) == text

\* str.lower() on a text given as the sequence of its characters
Lower(text) == [i \in DOMAIN text |-> LowerChar(text[i])]

\* sub in text (Python's substring test)
Contains(text, sub) ==
    \E k \in 0..(Len(text) - Len(sub)) : SubSeq(text, k + 1, k + Len(sub)) = sub

\* the characters of the tactic strings the operations persist
Text(str) ==
    CASE str = "" -> <<>>
      [] str = "Alert" ->
             <<"A", "l", "e", "r", "t">>
      [] str = "News/Intel" ->
             <<"N", "e", "w", "s", "/", "I", "n", "t", "e", "l">>
      [] str = "Intelligence" ->
             <<"I", "n", "t", "e", "l", "l", "i", "g", "e", "n", "c", "e">>
      [] str = "Discovery" ->
             <<"D", "i", "s", "c", "o", "v", "e", "r", "y">>
      [] str = "initial-access" ->
             <<"i", "n", "i", "t", "i", "a", "l", "-", "a", "c", "c", "e", "s", "s">>
      [] str = "execution" ->
             <<"e", "x", "e", "c", "u", "t", "i", "o", "n">>
      [] str = "initial-access, execution" ->
             <<"i", "n", "i", "t", "i", "a", "l", "-", "a", "c", "c", "e", "s", "s", ",", " ", "e", "x", "e", "c", "u", "t", "i", "o", "n">>

\* threat.get('name', ''), as characters; the threats of the operations above
\* are modelled without their name
Name(threat) == IF "name" \in DOMAIN threat THEN threat.name ELSE <<>>

\* tactics: the sorted list of the distinct non-empty tactic values, as their set.
ttps_response(th, page, tactic_filter, search_query) ==
    IF OpenRaises(th)
      THEN Respond("ttps", 200, [threats |-> <<>>, tactics |-> {}, pagination |-> EmptyDict])
      ELSE LET Keep(threat) ==
                   /\ \/ tactic_filter = <<>>
                      \/ Lower(Text(threat.tactic)) = Lower(tactic_filter)
                   /\ \/ search_query = <<>>
                      \/ Contains(Lower(Name(threat)), Lower(search_query))
               filtered_threats == SelectSeq(th, Keep)
               start == (page - 1) * ITEMS_PER_PAGE
           IN Respond("ttps", 200,
                      [threats |-> SubSeq(filtered_threats, start + 1,
                                          Min(start + ITEMS_PER_PAGE, Len(filtered_threats))),
                       tactics |-> {th[k].tactic : k \in DOMAIN th} \ {""},
                       current_tactic |-> tactic_filter,
                       search_query |-> search_query,
                       pagination |->
                           [page |-> page, per_page |-> ITEMS_PER_PAGE,
                            total |-> Len(filtered_threats),
                            pages |-> (Len(filtered_threats) + ITEMS_PER_PAGE - 1)
                                          \div ITEMS_PER_PAGE]])

\* the defaults assigned whether or not the key is present
actor_defaults_always(actor) ==
    [actor EXCEPT !.aliases = <<>>, !.targets = <<>>, !.techniques = <<>>, !.tools = <<>>,
                  !.sophistication = "Unknown", !.attribution_confidence = "Medium"]

\* for actor in actors: if '<key>' not in actor: actor['<key>'] = <default>
actor_defaults(actor) ==
    [actor EXCEPT !.aliases = Get(@, <<>>),
                  !.targets = Get(@, <<>>),
                  !.techniques = Get(@, <<>>),
                  !.tools = Get(@, <<>>),
                  !.sophistication = Get(@, "Unknown"),
                  !.attribution_confidence = Get(@, "Medium")]

actors_response(ac) ==
    IF GuardedOpenRaises(ac) THEN Respond("actors", 200, [actors |-> <<>>])
    ELSE Respond("actors", 200,
                 [actors |-> [k \in DOMAIN IfExists(ac) |-> actor_defaults(IfExists(ac)[k])]])

\* if 'risk_level' not in tool: derive it from len(tool.get('used_by', []))
tool_risk_level(tool) ==
    IF tool.risk_level # Missing THEN tool
    ELSE [tool EXCEPT !.risk_level =
             IF Len(tool.used_by) > 5 THEN "High"
             ELSE IF Len(tool.used_by) > 2 THEN "Medium"
             ELSE "Low"]

tools_response(tl) ==
    IF GuardedOpenRaises(tl) THEN Respond("tools", 200, [tools |-> <<>>])
    ELSE Respond("tools", 200,
                 [tools |-> [k \in DOMAIN IfExists(tl) |-> tool_risk_level(IfExists(tl)[k])]])

api_stats_response(th, ac, tl) ==
    IF ReadsRaise(th, ac, tl) THEN Respond("api_stats", 500, [error |-> "str(e)"])
    ELSE Respond("api_stats", 200,
                 [total_threats |-> Len(th), total_actors |-> Len(IfExists(ac)),
                  total_tools |-> Len(IfExists(tl))])

api_export_response(th, ac, tl) ==
    IF ReadsRaise(th, ac, tl) THEN Respond("api_export", 500, [error |-> "str(e)"])
    ELSE Respond("api_export", 200,
                 [threats |-> th, actors |-> IfExists(ac), tools |-> IfExists(tl),
                  metadata |-> [total_threats |-> Len(th),
                                total_actors |-> Len(IfExists(ac)),
                                total_tools |-> Len(IfExists(tl))]])

\* the Shodan page reads no file: without a key it shows its error text, else
\* what the service returned, else the two demo records
shodan_response(configured, found) ==
    IF ~configured
      THEN Respond("shodan", 200, [error |-> "Shodan API key not configured",
                                   vulnerabilities |-> 0])
      ELSE Respond("shodan", 200, [error |-> "None",
                                   vulnerabilities |-> IF found > 0 THEN found ELSE 2])

\* pages of the TTPs view requested up to this one
MaxPage == 2
\* the tactic and search parameters of the requests: '', 'ALERT', 'aler' and
\* '', 'AP', 'x'
TacticFilters == {<<>>, <<"A", "L", "E", "R", "T">>, <<"a", "l", "e", "r">>}
SearchQueries == {<<>>, <<"A", "P">>, <<"x">>}

\* a handler answers, between two runs of update_threat_data; it writes no file
View(resp) ==
    /\ NoRun
    /\ response' = resp
    /\ UNCHANGED <<threatsFile, actorsFile, toolsFile, pc, phase, existing, started,
                   cycle, last>>

\* the actors view writing the defaulted records back
actors_saving ==
    /\ NoRun
    /\ response' = actors_response(actorsFile)
    /\ actorsFile' = response'.body.actors
    /\ UNCHANGED <<threatsFile, toolsFile, pc, phase, existing, started, cycle, last>>

index == View(index_response(threatsFile, actorsFile, toolsFile))

ttps ==
    \E page \in 1..MaxPage, tactic_filter \in TacticFilters, search_query \in SearchQueries :
        View(ttps_response(threatsFile, page, tactic_filter, search_query))

actors == View(actors_response(actorsFile))

tools == View(tools_response(toolsFile))

shodan == \E configured \in BOOLEAN, found \in 0..1 : View(shodan_response(configured, found))

api_stats == View(api_stats_response(threatsFile, actorsFile, toolsFile))

api_export == View(api_export_response(threatsFile, actorsFile, toolsFile))

\* the process before app.py has created the files
InitView ==
    /\ threatsFile = Absent
    /\ actorsFile = Absent
    /\ toolsFile = Absent
    /\ response = NoResponse
    /\ pc = [r \in Runs |-> "idle"]
    /\ phase = [r \in Runs |-> "fetch"]
    /\ existing = [r \in Runs |-> <<>>]
    /\ started = 0
    /\ cycle = [r \in Runs |-> NoCycle]
    /\ last = NoCall

\* the store, the pages and the manual refresh; of the adapters only MITRE's
\* returns data (CISA and the feeds are unreachable, no OTX or Shodan key)
NextView ==
    \/ initialize_files
    \/ initialize_data
    \/ update_tools_data
    \/ index
    \/ ttps
    \/ actors
    \/ tools
    \/ shodan
    \/ api_stats
    \/ api_export
    \/ StartCycle("request", FALSE)
    \/ NoData("request", "refresh")
    \/ FetchRaises("request", "refresh")
    \/ LoadFrom({"mitre"}, "request", "refresh")
    \/ process_mitre_data("request", "refresh")
    \/ FinishCycle("request")
SpecView == InitView /\ [][NextView]_vars

\* a persisted threat with its 'name' key, as characters
Named(threat, name) ==
    [key \in DOMAIN threat \cup {"name"} |-> IF key = "name" THEN name ELSE threat[key]]

\* threats named 'Apt', 'Tap' and 'pa'
ListedThreats ==
    {Named(Threat("AA-1", "CISA", <<5>>, "Alert", "High", <<"cisa", "alert">>),
           <<"A", "p", "t">>),
     Named(Threat("T1059.001", "MITRE ATT&CK", <<2>>, "execution", "Medium",
                  <<"mitre", "technique", "execution">>),
           <<"T", "a", "p">>),
     Named(Threat("AA-2", "CISA", <<2>>, "Alert", "Medium", <<"cisa", "alert">>),
           <<"p", "a">>)}

\* the TTP listing over every threats file of distinct listed threats
InitTtps ==
    /\ threatsFile \in {list \in SeqUpTo(ListedThreats, Cardinality(ListedThreats)) :
                           \A i, j \in DOMAIN list : i # j => list[i] # list[j]}
    /\ actorsFile = <<>>
    /\ toolsFile = <<>>
    /\ response = NoResponse
    /\ pc = [r \in Runs |-> "idle"]
    /\ phase = [r \in Runs |-> "fetch"]
    /\ existing = [r \in Runs |-> <<>>]
    /\ started = 0
    /\ cycle = [r \in Runs |-> NoCycle]
    /\ last = NoCall

NextTtps == ttps
SpecTtps == InitTtps /\ [][NextTtps]_vars

----------------------------------------------------------------------------
(* The severity heuristics of the adapters.  A text is the set of the words  *)
(* of the keyword lists that occur in it (keyword in text_lower); a tag is   *)
(* one such word.                                                            *)

\* entry.get('title', '') + ' ' + description
Concat(title, description) == title \cup description

\* RSSService._assess_threat_level
_assess_threat_level(text) ==
    IF text \cap {"critical", "zero-day", "actively exploited", "widespread",
                  "emergency"} # {} THEN "Critical"
    ELSE IF text \cap {"high", "severe", "dangerous", "urgent", "major breach"} # {}
      THEN "High"
    ELSE IF text \cap {"medium", "moderate", "warning", "vulnerability"} # {}
      THEN "Medium"
    ELSE "Low"

\* CISAService._extract_severity
_extract_severity(title) ==
    IF "critical" \in title THEN "Critical"
    ELSE IF "high" \in title THEN "High"
    ELSE IF "medium" \in title THEN "Medium"
    ELSE IF "low" \in title THEN "Low"
    ELSE "Unknown"

\* for tag in tags: score += 3 for a high-risk tag, 2 for a medium-risk tag
RECURSIVE TagScore(_)
TagScore(tags) ==
    IF tags = <<>> THEN 0
    ELSE (IF Head(tags) \in {"apt", "ransomware", "zero-day", "critical", "active",
                             "campaign"} THEN 3
          ELSE IF Head(tags) \in {"malware", "phishing", "trojan", "backdoor"} THEN 2
          ELSE 0) + TagScore(Tail(tags))

\* OTXService._assess_pulse_threat_level
_assess_pulse_threat_level(pulse) ==
    LET score == TagScore(pulse.tags)
                   + (IF pulse.malware_families THEN 2 ELSE 0)
                   + (IF pulse.attack_ids THEN 2 ELSE 0)
                   + (IF pulse.targeted THEN 1 ELSE 0)
    IN IF score >= 6 THEN "Critical"
       ELSE IF score >= 4 THEN "High"
       ELSE IF score >= 2 THEN "Medium"
       ELSE "Low"

\* what the feeds and the OTX API deliver: the words in title and description,
\* the tags of a pulse, whether its malware_families, its attack_ids, its
\* targeted_countries or industries are non-empty
FeedEntries ==
    [title : SUBSET {"critical", "high", "medium"},
     description : SUBSET {"critical", "high", "medium"}]
AlertEntries ==
    [title : SUBSET {"critical", "high", "medium", "low"},
     description : {{}, {"critical"}}]
PulseEntries ==
    [title : {{}}, description : {{}, {"critical"}},
     tags : SeqUpTo({"critical", "malware", "news"}, MaxBatch),
     malware_families : BOOLEAN, attack_ids : BOOLEAN, targeted : BOOLEAN]

\* an adapter has built the record of an entry; `last` keeps the entry and the
\* level the adapter gave it
Fetched(op, entry, level) ==
    /\ last' = [op |-> op, entry |-> entry, level |-> level]
    /\ UNCHANGED <<threatsFile, actorsFile, toolsFile, response, pc, phase, existing,
                   started, cycle>>

\* RSSService.fetch_feed: 'threat_level' of an article
fetch_feed ==
    \E entry \in FeedEntries :
        Fetched("fetch_feed", entry,
                _assess_threat_level(Concat(entry.title, entry.description)))

\* CISAService.fetch_alerts: 'severity' of an alert
fetch_alerts ==
    \E entry \in AlertEntries :
        Fetched("fetch_alerts", entry, _extract_severity(entry.title))

\* OTXService.fetch_pulses: 'threat_level' of a pulse
fetch_pulses ==
    \E entry \in PulseEntries :
        Fetched("fetch_pulses", entry, _assess_pulse_threat_level(entry))

\* the adapters alone, on every entry
NextAdapters == fetch_feed \/ fetch_alerts \/ fetch_pulses
SpecAdapters == Init /\ [][NextAdapters]_vars

----------------------------------------------------------------------------
(* What the claims speak of *)

\* run r is inside process_<src>_data: existing_threats is loaded and the merge
\* loop is about to run over whichever batch the adapter returned
Pending(r, src) == pc[r] = src /\ phase[r] = "merge"

\* the persisted threats collection: what a load of the file returns
PersistedThreats == _load_json_file(threatsFile)

\* the threat the operation of src builds from a raw record
Normalize(src, raw) ==
    CASE src = "mitre"  -> mitre_threat(raw)
      [] src = "cisa"   -> cisa_threat(raw)
      [] src = "rss"    -> rss_threat(raw)
      [] src = "otx"    -> otx_threat(raw)
      [] src = "shodan" -> shodan_threat(raw)

\* the admission filter of the source: RSS only
Admitted(src, raw) == src # "rss" \/ HasRelevantTag(raw)

\* the threats file after a whole call of process_<src>_data on `file`: load,
\* merge loop, retention step, save
Call(src, file, batch, outcome) ==
    IF Raises(batch) THEN file
    ELSE _save_json_file(file, ToSave(src, _load_json_file(file), batch), outcome)

SameKey(t, u) == t.id = u.id /\ t.source = u.source

\* C1: the persisted threats collection never holds two records with the same
\* id and the same source, whatever the operations and batches, also when two
\* runs of update_threat_data interleave their loads and saves.
C1_NoDuplicateKey ==
    \A i, j \in DOMAIN PersistedThreats :
        i # j => ~SameKey(PersistedThreats[i], PersistedThreats[j])

\* two runs are in progress, one of them between its load and its save, and
\* the file holds two records that share their id under different sources
C1_Witness ==
    /\ \A r \in Runs : pc[r] \in Range(Sources)
    /\ \E r \in Runs : phase[r] = "merge" /\ existing[r] # PersistedThreats
    /\ \E i, j \in DOMAIN PersistedThreats :
          /\ PersistedThreats[i].id = PersistedThreats[j].id
          /\ PersistedThreats[i].source # PersistedThreats[j].source

\* C2: when a record is persisted under one source and an admitted candidate
\* with the same id and another source is ingested, both are in the persisted
\* collection afterwards (the operation raising nothing, its retention step
\* dropping nothing, its save writing).
C2_CrossSourceBothKept ==
    \A r \in Runs, src \in Range(Sources) :
        Pending(r, src) =>
            \A batch \in Batches(src) :
                LET after == ToSave(src, existing[r], batch)
                IN (~Raises(batch) /\ Len(after) = Len(Merged(src, existing[r], batch))) =>
                    \A i \in DOMAIN batch, k \in DOMAIN existing[r] :
                        LET candidate == Normalize(src, batch[i])
                            held == existing[r][k]
                        IN (/\ Admitted(src, batch[i])
                            /\ held.id = candidate.id
                            /\ held.source # candidate.source) =>
                                /\ \E t \in Range(after) : SameKey(t, held)
                                /\ \E t \in Range(after) : SameKey(t, candidate)

\* C3: running a source's operation twice in succession with the same batch
\* leaves the persisted collection with the same length as running it once,
\* for every source, batch and starting collection.
C3_Idempotent ==
    \A r \in Runs, src \in Range(Sources) :
        Pending(r, src) =>
            \A batch \in Batches(src), outcome \in SaveOutcomes :
                LET once == Call(src, threatsFile, batch, outcome)
                    twice == Call(src, once, batch, outcome)
                IN Len(_load_json_file(twice)) = Len(_load_json_file(once))

\* a CISA batch was ingested, its save wrote, and nothing was appended because
\* the collection already held its alert: the batch was ingested before
C3_Witness ==
    /\ last.op = "cisa" /\ last.outcome = "written" /\ last.appended = 0
    /\ \E t \in Range(PersistedThreats) : t.source = "CISA"

\* the retention cap the claims give each operation
RetentionCap(src) == IF src = "shodan" THEN ShodanCap ELSE RssCap

\* C4: for every source's operation, when the merged collection exceeds the
\* retention cap, the persisted collection has exactly cap records, those with
\* the greatest date strings.
C4_RetentionEverySource ==
    \A r \in Runs, src \in Range(Sources) :
        Pending(r, src) =>
            \A batch \in Batches(src) :
                LET merged == Merged(src, existing[r], batch)
                    after == ToSave(src, existing[r], batch)
                IN (~Raises(batch) /\ Len(merged) > RetentionCap(src)) =>
                    /\ Len(after) = RetentionCap(src)
                    /\ Range(after) \subseteq Range(merged)
                    /\ \A t \in Range(after), u \in Range(merged) \ Range(after) :
                          ~LexLess(t.date, u.date)

\* the article's tag list contains at least one tag of the allow-list
Relevant(article) ==
    Range(article.tags) \cap {"malware", "ransomware", "vulnerability", "apt", "phishing"} # {}

C6_MitreScenario ==
    \A r \in Runs :
        Pending(r, "mitre") =>
            /\ existing[r] = <<>> =>
                  \A date \in Dates :
                      LET record == Technique("T1566.001", <<"initial-access">>, date, FALSE)
                          once == _load_json_file(Call("mitre", threatsFile, <<record>>, "written"))
                          again == _load_json_file(Call("mitre", once, <<record>>, "written"))
                      IN /\ Len(once) = 1
                         /\ once[1].id = "T1566.001"
                         /\ once[1].tactic = "initial-access"
                         /\ once[1].source = "MITRE ATT&CK"
                         /\ once[1].severity = "Medium"
                         /\ Len(again) = 1
            /\ \A batch \in Batches("mitre") :
                  LET after == ToSave("mitre", existing[r], batch)
                  IN ~Raises(batch) =>
                      /\ \A i \in DOMAIN batch :
                            (\A k \in DOMAIN existing[r] :
                                 ~(existing[r][k].id = batch[i].id
                                   /\ existing[r][k].source = "MITRE ATT&CK")) =>
                                \E j \in 1..i, t \in Range(after) :
                                    /\ t.id = batch[j].id /\ t.id = batch[i].id
                                    /\ t.source = "MITRE ATT&CK" /\ t.severity = "Medium"
                                    /\ t.date = batch[j].date
                                    /\ \/ batch[j].tactics = <<>>
                                          /\ t.tactic = ""
                                       \/ batch[j].tactics = <<"initial-access">>
                                          /\ t.tactic = "initial-access"
                                       \/ batch[j].tactics = <<"initial-access", "execution">>
                                          /\ t.tactic = "initial-access, execution"
                      /\ Len(ToSave("mitre", after, batch)) = Len(after)

\* process_mitre_data ran on an empty collection, appended one technique and
\* its save wrote the threat with tactic 'initial-access'
C6_Witness ==
    /\ last.op = "mitre" /\ last.outcome = "written" /\ last.appended = 1
    /\ Len(PersistedThreats) = 1
    /\ PersistedThreats[1].id = "T1566.001"
    /\ PersistedThreats[1].tactic = "initial-access"

\* the record of a batch with the smallest date string
Smallest(batch) ==
    CHOOSE x \in Range(batch) : \A y \in Range(batch) : ~LexLess(y.date, x.date)

\* C7, as stated: ingesting a batch of more than cap RSS records, each tagged
\* malware, with pairwise distinct date strings, leaves a persisted collection
\* of length exactly cap from which the record with the smallest date string
\* is absent.
C7_OverCapBatch ==
    \A r \in Runs :
        Pending(r, "rss") =>
            \A batch \in OverCapBatches :
                LET after == _load_json_file(Call("rss", threatsFile, batch, "written"))
                IN /\ Len(after) = RssCap
                   /\ rss_threat(Smallest(batch)) \notin Range(after)

\* C7, amended: the same, for a batch whose ids are pairwise distinct and none
\* of which is the id of a record already in the collection.
C7_OverCapNewBatch ==
    \A r \in Runs :
        Pending(r, "rss") =>
            \A batch \in OverCapBatches :
                LET after == _load_json_file(Call("rss", threatsFile, batch, "written"))
                IN (/\ DistinctIds(batch)
                    /\ \A i \in DOMAIN batch, k \in DOMAIN existing[r] :
                          existing[r][k].id # batch[i].id) =>
                        /\ Len(after) = RssCap
                        /\ rss_threat(Smallest(batch)) \notin Range(after)

\* process_rss_data appended a batch of more records than the cap, its
\* retention step dropped records and its save wrote cap records
C7_Witness ==
    /\ last.op = "rss" /\ last.outcome = "written"
    /\ last.appended = RssCap + 1 /\ last.dropped >= 1
    /\ Len(PersistedThreats) = RssCap

\* C8: within one run of update_threat_data, whenever the fetch or the
\* ingestion of a source fails with an exception, every later source of the
\* order MITRE, CISA, RSS, OTX, Shodan is still reached in that run.
C8_FailureIsolation ==
    \A r \in Runs :
        (pc[r] = "done" /\ cycle[r].raised # "none") =>
            \A i, j \in DOMAIN Sources :
                (Sources[i] = cycle[r].raised /\ i < j) =>
                    Sources[j] \in cycle[r].fetched

\* C9, as stated: when the adapter of a source returns no data in a cycle,
\* the operation of the source is not invoked and every record of the source
\* persisted before the cycle is still persisted when the cycle completes.
C9_NoDataSourceKept ==
    \A r \in Runs :
        pc[r] = "done" => cycle[r].nodata \cap cycle[r].lost = {}

\* C9, amended: skipping a source that returned no data changes no file; and
\* a record of any source leaves the threats file only in the save of
\* process_rss_data or process_shodan_data, which keeps the cap records with
\* the greatest date strings, or in a save that fails midway.
C9_LossOnlyByRetention ==
    [][/\ \A r \in Runs :
            cycle'[r].nodata # cycle[r].nodata =>
                threatsFile' = threatsFile /\ actorsFile' = actorsFile
       /\ \A src \in Range(Sources) :
            LET before == RecordsOf(src, _load_json_file(threatsFile))
                after == _load_json_file(threatsFile')
            IN ~(before \subseteq Range(after)) =>
                \/ threatsFile' = Unparseable
                \/ /\ \E r \in Runs :
                         \/ Pending(r, "rss") /\ Len(after) = RssCap
                         \/ Pending(r, "shodan") /\ Len(after) = ShodanCap
                   /\ \A t \in before \ Range(after), u \in Range(after) :
                         ~LexLess(u.date, t.date)]_vars

\* a run completed in which CISA returned no data, the MITRE operation ran,
\* and the collection holds a CISA record
C9_Witness ==
    \E r \in Runs :
        /\ pc[r] = "done"
        /\ "cisa" \in cycle[r].nodata
        /\ "mitre" \in cycle[r].fetched \ cycle[r].nodata
        /\ RecordsOf("cisa", PersistedThreats) # {}

\* the records of a batch that normalise
GoodOnly(batch) == SelectSeq(batch, LAMBDA raw : ~raw.bad)

\* C10: a normalisation failure on one record of a batch drops only that
\* record: whatever ingesting the other records of the batch would persist is
\* persisted by the operation.
C10_BadRecordDropsOnlyItself ==
    \A r \in Runs, src \in Range(Sources) :
        Pending(r, src) =>
            \A batch \in Batches(src) :
                Raises(batch) =>
                    Range(ToSave(src, existing[r], GoodOnly(batch))) \subseteq
                        Range(_load_json_file(Call(src, threatsFile, batch, "written")))

\* what a caller of _load_json_file is told to expect of a file
LoadsAsSpecified(file) ==
    LET data == _load_json_file(file)
    IN IF file = Absent \/ file = Unparseable THEN <<>> = data ELSE file = data

\* C12: _load_json_file never raises: it yields the empty list when the file is
\* absent or its content cannot be parsed, and the parsed content otherwise;
\* what a run holds after its load is therefore always a list.
C12_LoadNeverRaises ==
    /\ LoadsAsSpecified(threatsFile)
    /\ LoadsAsSpecified(actorsFile)
    /\ LoadsAsSpecified(toolsFile)
    /\ \A r \in Runs :
          phase[r] = "merge" => existing[r] # Absent /\ existing[r] # Unparseable

\* a run has loaded the threats file that did not exist, and holds []
C12_Witness ==
    /\ threatsFile = Absent
    /\ phase["request"] = "merge"
    /\ <<>> = existing["request"]

\* the actors collection as the next reader of the file finds it
PersistedActors == _load_json_file(actorsFile)

IsPrefix(s, t) == Len(s) <= Len(t) /\ \A i \in 1..Len(s) : s[i] = t[i]

Occurrences(list, id) == Cardinality({i \in DOMAIN list : list[i].id = id})

CatalogIds == {"apt1", "apt28", "apt29", "lazarus"}

\* C13: actor ingestion is append-only with id-only deduplication: across a
\* call of process_mitre_data the actors persisted before are still persisted,
\* unchanged and in their order, each catalog id that was absent or unique
\* occurs exactly once, nothing is truncated; and no other operation of the
\* pipeline writes the actors file.
C13_ActorsAppendOnly ==
    [][IF \E r \in Runs : pc[r] = "mitre" /\ phase[r] = "merge" /\ phase'[r] = "fetch"
       THEN /\ IsPrefix(PersistedActors, PersistedActors')
            /\ \A id \in CatalogIds :
                  Occurrences(PersistedActors, id) <= 1 =>
                      Occurrences(PersistedActors', id) = 1
       ELSE actorsFile' = actorsFile]_vars

\* the tools collection as the next reader of the file finds it
PersistedTools == _load_json_file(toolsFile)

\* C14: every operation of the pipeline that writes the threats, the actors or
\* the tools collection is append-only except for retention truncation: each
\* record persisted before the operation is persisted after it, unless it is
\* one of the oldest-by-date records beyond the cap.  (The step that leaves the
\* list of update_tools_data in the tools file is a save of update_tools_data.)
C14_PipelineAppendOnly ==
    [][/\ security_tools = toolsFile' =>
             Range(PersistedTools) \subseteq Range(PersistedTools')
       /\ \A r \in Runs :
            (phase[r] = "merge" /\ phase'[r] = "fetch") =>
                /\ Range(PersistedActors) \subseteq Range(PersistedActors')
                /\ \A t \in Range(PersistedThreats) \ Range(PersistedThreats') :
                      /\ Len(PersistedThreats') = RetentionCap(pc[r])
                      /\ \A u \in Range(PersistedThreats') : ~LexLess(u.date, t.date)]_vars

\* C15: the presentation layer does not mutate the store: a request served by
\* index, ttps, actors, tools, shodan, api_stats or api_export leaves the
\* threats, actors and tools files as they were.
C15_ViewsDoNotWrite ==
    [][(index \/ ttps \/ actors \/ tools \/ shodan \/ api_stats \/ api_export) =>
           UNCHANGED <<threatsFile, actorsFile, toolsFile>>]_vars

\* the actors view has answered with a record it filled with defaults, from a
\* file that holds the record without them
C15_Witness ==
    /\ response.route = "actors"
    /\ response.status = 200
    /\ actorsFile # Absent /\ actorsFile # Unparseable
    /\ \E i \in DOMAIN actorsFile :
          /\ actorsFile[i].sophistication = Missing
          /\ i \in DOMAIN response.body.actors
          /\ response.body.actors[i].sophistication = "Unknown"

\* what the actors view is to report for a stored value
Reported(stored, default) == IF stored = Missing THEN default ELSE stored

\* C16: the actors view reports, for every stored actor, a missing
\* sophistication as 'Unknown', a missing attribution_confidence as 'Medium',
\* missing aliases, targets, techniques or tools as empty lists, and every
\* present field with its stored value; the stored record is not changed.
C16_ActorDefaults ==
    [][actors =>
         /\ PersistedActors' = PersistedActors
         /\ Len(response'.body.actors) = Len(PersistedActors)
         /\ \A i \in DOMAIN PersistedActors :
              LET stored == PersistedActors[i]
                  shown == response'.body.actors[i]
              IN /\ shown.id = stored.id
                 /\ shown.name = stored.name
                 /\ shown.sophistication = Reported(stored.sophistication, "Unknown")
                 /\ shown.attribution_confidence =
                        Reported(stored.attribution_confidence, "Medium")
                 /\ shown.aliases = Reported(stored.aliases, <<>>)
                 /\ shown.targets = Reported(stored.targets, <<>>)
                 /\ shown.techniques = Reported(stored.techniques, <<>>)
                 /\ shown.tools = Reported(stored.tools, <<>>)]_vars

\* the actors view has answered from a file that holds an actor with a stored
\* sophistication and one without
C16_Witness ==
    /\ response.route = "actors"
    /\ Len(response.body.actors) = Len(PersistedActors)
    /\ \E i, j \in DOMAIN PersistedActors :
          /\ PersistedActors[i].sophistication = Missing
          /\ PersistedActors[i].aliases = Missing
          /\ response.body.actors[i].sophistication = "Unknown"
          /\ response.body.actors[i].aliases = <<>>
          /\ PersistedActors[j].sophistication = "High"
          /\ response.body.actors[j].sophistication = "High"

\* the risk level the number of users of a tool stands for
DerivedRisk(users) == IF users > 5 THEN "High" ELSE IF users > 2 THEN "Medium" ELSE "Low"

\* C17: the risk level the tools view shows for a tool is derived from the
\* length of its used_by list (more than 5 High, more than 2 Medium, otherwise
\* Low), and is not a stored attribute.
C17_RiskLevelDerived ==
    [][tools =>
         /\ Len(response'.body.tools) = Len(PersistedTools)
         /\ \A i \in DOMAIN PersistedTools :
              response'.body.tools[i].risk_level =
                  DerivedRisk(Len(PersistedTools[i].used_by))]_vars

\* C18: every read endpoint (index, ttps, actors, tools, api_stats, api_export)
\* answers with best-effort data when a file is absent or unreadable: an empty
\* collection and zeroed counts for that file, the readable collections still
\* served, and never an error response or error text.
C18_BestEffortReads ==
    [][(index \/ ttps \/ actors \/ tools \/ api_stats \/ api_export) =>
         /\ response'.status = 200
         /\ index =>
              /\ response'.body.actors = Take(PersistedActors, DashboardItems)
              /\ response'.body.tools = Take(PersistedTools, DashboardItems)
              /\ Len(response'.body.recent_threats) =
                     Min(DashboardItems, Len(PersistedThreats))
         /\ api_stats =>
              /\ response'.body.total_threats = Len(PersistedThreats)
              /\ response'.body.total_actors = Len(PersistedActors)
              /\ response'.body.total_tools = Len(PersistedTools)
         /\ api_export =>
              /\ response'.body.threats = PersistedThreats
              /\ response'.body.actors = PersistedActors
              /\ response'.body.tools = PersistedTools]_vars

\* C19: the manual refresh endpoint reports the outcome of the run it made: the
\* success JSON only when the run had no fetch, ingestion or persistence
\* failure, the error JSON when it had one.
C19_RefreshReportsOutcome ==
    [][(pc["request"] = "done" /\ pc'["request"] = "idle") =>
         /\ response'.route = "api_refresh"
         /\ response'.body.status = "success" <=>
                (cycle["request"].raised = "none" /\ ~cycle["request"].unsaved)]_vars

\* C20: a scheduled run and a manual-refresh run overlap without coordination:
\* a save persists what its run loaded and the run's own batch, so that what
\* another run saved since that load is overwritten (lost update).
C20_LaterSaveOverwrites ==
    [][\A r \in Runs :
         (phase[r] = "merge" /\ phase'[r] = "fetch") =>
             \/ PersistedThreats' = PersistedThreats
             \/ threatsFile' = Unparseable
             \/ \A t \in Range(PersistedThreats') :
                   t \in Range(existing[r]) \/ t.source \in Stamp(pc[r])]_vars

\* both runs are in progress, and the save one of them completed has removed
\* from the file a record that the other persisted after the first had loaded
C20_Witness ==
    /\ \A r \in Runs : pc[r] # "idle"
    /\ \E r \in Runs :
          /\ cycle[r].lost # {}
          /\ \A src \in cycle[r].lost : RecordsOf(src, PersistedThreats) = {}

\* C11: a persistence failure inside _save_json_file is swallowed, the
\* operation returns and the cycle goes on to the next source, and the
\* persisted collection is the one that was persisted before the operation.
C11_SaveFailureKeepsStale ==
    [][\A r \in Runs :
          (/\ phase[r] = "merge" /\ phase'[r] = "fetch"
           /\ last'.outcome \in {"failed", "torn"}) =>
              /\ pc'[r] = Next_source(pc[r])
              /\ PersistedThreats' = PersistedThreats]_vars


\* C21: with the scan source (Shodan) enabled the retention cap of the threats
\* collection is that of process_shodan_data: no operation truncates a merged
\* collection of at most that many records.  (A Shodan record in the
\* collection shows that the source is enabled.)
C21_CapWithShodan ==
    \A r \in Runs, src \in Range(Sources) :
        Pending(r, src) =>
            \A batch \in Batches(src) :
                LET merged == Merged(src, existing[r], batch)
                IN (/\ ~Raises(batch)
                    /\ RecordsOf("shodan", existing[r]) # {}
                    /\ Len(merged) <= ShodanCap) =>
                        Len(ToSave(src, existing[r], batch)) = Len(merged)


\* two characters that are the same letter, whatever their case
SameLetter(c, d) ==
    c = d \/ \E k \in DOMAIN Capitals : {c, d} = {Capitals[k], SmallLetters[k]}

\* the tactic equals the filter ignoring case
TacticMatches(threat, tactic_filter) ==
    LET tactic == Text(threat.tactic)
    IN /\ Len(tactic) = Len(tactic_filter)
       /\ \A i \in DOMAIN tactic : SameLetter(tactic[i], tactic_filter[i])

\* the query is a substring of the name ignoring case
NameMatches(threat, search_query) ==
    \E offset \in 0..(Len(threat.name) - Len(search_query)) :
        \A i \in DOMAIN search_query : SameLetter(threat.name[offset + i], search_query[i])

\* C22: the TTP listing shows a threat under a non-empty tactic filter iff its
\* tactic equals the filter ignoring case, and under a non-empty search query
\* iff the query is a substring of its name ignoring case; with both set both
\* must hold; the listing keeps the stored order.
C22_TtpsFilter ==
    \A tactic_filter \in TacticFilters, search_query \in SearchQueries :
        LET Shown(threat) ==
                /\ tactic_filter # <<>> => TacticMatches(threat, tactic_filter)
                /\ search_query # <<>> => NameMatches(threat, search_query)
        IN ttps_response(threatsFile, 1, tactic_filter, search_query).body.threats =
               SelectSeq(threatsFile, Shown)

\* the listing has answered a request with a tactic filter and a search query
\* that differ in case from the stored values, showing some threats of the
\* file and not others
C22_Witness ==
    /\ response.route = "ttps"
    /\ response.body.pagination.page = 1
    /\ response.body.current_tactic = <<"A", "L", "E", "R", "T">>
    /\ response.body.search_query = <<"A", "P">>
    /\ Len(threatsFile) = 3
    /\ Len(response.body.threats) = 1
    /\ response.body.threats[1].tactic = "Alert"


\* the ladder: Critical before High before Medium, else the default
Ladder(text, default) ==
    IF "critical" \in text THEN "Critical"
    ELSE IF "high" \in text THEN "High"
    ELSE IF "medium" \in text THEN "Medium"
    ELSE default

\* the level an adapter gives to a text without any keyword
DefaultLevel(op) == IF op = "fetch_alerts" THEN "Unknown" ELSE "Low"

\* C23: every adapter derives the severity by one ordered keyword ladder over
\* title plus description: Critical if a critical keyword occurs, else High if
\* a high keyword occurs, else Medium if a medium keyword occurs, else the
\* default of the source.
C23_KeywordLadder ==
    last.op \in {"fetch_feed", "fetch_alerts", "fetch_pulses"} =>
        last.level = Ladder(last.entry.title \cup last.entry.description,
                            DefaultLevel(last.op))


\* the severity a raw record carries, Missing when it carries none; a MITRE
\* technique never carries one
RawSeverity(src, raw) ==
    CASE src = "mitre"  -> Missing
      [] src = "cisa"   -> raw.severity
      [] src = "rss"    -> raw.threat_level
      [] src = "otx"    -> raw.threat_level
      [] src = "shodan" -> raw.severity

DefaultSeverity(src) == IF src = "rss" THEN "Low" ELSE "Medium"

FamilyTactic(src, raw) ==
    CASE src = "mitre"  -> Join(raw.tactics)
      [] src = "cisa"   -> "Alert"
      [] src = "rss"    -> "News/Intel"
      [] src = "otx"    -> "Intelligence"
      [] src = "shodan" -> "Discovery"

PersistedId(src, raw) == IF src = "otx" THEN "otx-" \o raw.id ELSE raw.id

\* C24: a record persisted for a raw record without severity has severity
\* 'Medium', 'Low' when it comes from RSS; a raw record's own severity is kept;
\* the persisted tactic is the literal of the source family, for MITRE the
\* joined tactic list.
C24_NormalizationDefaults ==
    \A r \in Runs, src \in Range(Sources) :
        Pending(r, src) =>
            \A batch \in Batches(src) :
                ~Raises(batch) =>
                    \A t \in Range(ToSave(src, existing[r], batch)) \ Range(existing[r]) :
                        \E i \in DOMAIN batch :
                            LET raw == batch[i]
                                severity == RawSeverity(src, raw)
                            IN /\ t.id = PersistedId(src, raw)
                               /\ t.date = raw.date
                               /\ t.tactic = FamilyTactic(src, raw)
                               /\ t.severity = IF severity = Missing
                                                 THEN DefaultSeverity(src) ELSE severity

\* process_rss_data has persisted an article that carried no threat_level,
\* with severity 'Low' and tactic 'News/Intel'
C24_Witness ==
    /\ last.op = "rss" /\ last.outcome = "written" /\ last.appended >= 1
    /\ \E k \in DOMAIN PersistedThreats :
          /\ PersistedThreats[k].tactic = "News/Intel"
          /\ PersistedThreats[k].severity = "Low"


\* the dedup key of the operation of src matches: id and source, for RSS and
\* OTX the id alone
KeyMatch(src, t, u) == t.id = u.id /\ (src \in {"rss", "otx"} \/ t.source = u.source)

\* the first admitted candidate of the batch with the key of t
FirstCandidate(src, batch, t) ==
    LET matching == {i \in DOMAIN batch :
                        Admitted(src, batch[i]) /\ KeyMatch(src, Normalize(src, batch[i]), t)}
    IN Normalize(src, batch[CHOOSE i \in matching : \A j \in matching : i <= j])

\* C25: first writer wins: a candidate whose dedup key matches a persisted
\* record, or a record appended earlier from the same batch, is discarded and
\* the record that was there keeps all its fields; no operation updates a
\* persisted threat or actor in place.
C25_FirstWriterWins ==
    \A r \in Runs, src \in Range(Sources) :
        Pending(r, src) =>
            \A batch \in Batches(src) :
                ~Raises(batch) =>
                    LET after == ToSave(src, existing[r], batch)
                    IN /\ IsPrefix(existing[r], Merged(src, existing[r], batch))
                       /\ \A t \in Range(after) :
                             (\E u \in Range(existing[r]) : KeyMatch(src, t, u)) =>
                                 t \in Range(existing[r])
                       /\ \A t \in Range(after) \ Range(existing[r]) :
                             t = FirstCandidate(src, batch, t)
                       /\ src = "mitre" =>
                             IsPrefix(PersistedActors,
                                      actors_merge(PersistedActors, known_actors))

\* process_mitre_data has loaded a collection that holds a MITRE technique,
\* and a batch offers the same technique with another date and tactic list:
\* what the operation then saves is the collection it loaded
C25_Witness ==
    \E r \in Runs :
        /\ Pending(r, "mitre")
        /\ \E batch \in Batches("mitre"), k \in DOMAIN existing[r] :
              /\ batch # <<>> /\ ~Raises(batch)
              /\ \A i \in DOMAIN batch :
                    /\ KeyMatch("mitre", mitre_threat(batch[i]), existing[r][k])
                    /\ mitre_threat(batch[i]).date # existing[r][k].date
                    /\ mitre_threat(batch[i]).tactic # existing[r][k].tactic
              /\ ToSave("mitre", existing[r], batch) = existing[r]


\* C26: deduplication has no memory of evicted records: a record that a
\* retention step removed is appended again when a later batch holds its id
\* and source (and neither is persisted at that time), cycle after cycle.
C26_EvictedReadmitted ==
    \A r \in Runs, src \in Range(Sources) :
        Pending(r, src) =>
            \A batch \in Batches(src) :
                ~Raises(batch) =>
                    \A i \in DOMAIN batch :
                        LET t == Normalize(src, batch[i])
                        IN (/\ Admitted(src, batch[i])
                            /\ <<t.id, t.source>> \in last.evicted
                            /\ \A u \in Range(existing[r]) : ~SameKey(t, u)) =>
                                \E u \in Range(Merged(src, existing[r], batch)) : SameKey(t, u)


\* the threats the operation of src builds from the records of batch
BatchRecords(src, batch) == {Normalize(src, batch[i]) : i \in DOMAIN batch}

\* C27: an ingestion operation whose load finds the threats file unparseable
\* takes the collection as empty, and its save replaces the file with records
\* of its own batch only: what was persisted before is lost.
C27_UnparseableLoadedAsEmpty ==
    [][\A r \in Runs :
          (phase[r] = "fetch" /\ phase'[r] = "merge" /\ threatsFile = Unparseable) =>
              /\ existing'[r] = <<>>
              /\ \A batch \in Batches(pc[r]) :
                    ~Raises(batch) =>
                        Range(_save_json_file(threatsFile,
                                              ToSave(pc[r], existing'[r], batch),
                                              "written"))
                            \subseteq BatchRecords(pc[r], batch)]_vars

\* an operation has loaded the file that the previous operation's save left
\* unparseable, and its batch has a record to save
C27_Witness ==
    \E r \in Runs, src \in Range(Sources) :
        /\ Pending(r, src)
        /\ threatsFile = Unparseable
        /\ existing[r] = <<>>
        /\ last.outcome = "torn"
        /\ \E batch \in Batches(src) : ~Raises(batch) /\ ToSave(src, existing[r], batch) # <<>>


\* non-increasing date strings; the record without a date has the date ''
Ordered(threats) ==
    \A i, j \in DOMAIN threats : i < j => ~LexLess(threats[i].date, threats[j].date)

\* the records of one date are in `after` in the order they have in `before`
KeepsOrder(after, before) ==
    \A date \in {before[i].date : i \in DOMAIN before} :
        LET OfDate(t) == t.date = date
        IN IsPrefix(SelectSeq(after, OfDate), SelectSeq(before, OfDate))

\* what is persisted after the call of src on batch whose save ends in outcome
PersistedAfter(r, src, batch, outcome) ==
    _load_json_file(_save_json_file(threatsFile, ToSave(src, existing[r], batch), outcome))

\* C28, as stated: after every process_rss_data or process_shodan_data call
\* that reaches its save, the persisted threats are in non-increasing order of
\* date string, records of equal date in their previous relative order, and
\* at most 1000 (RSS), 2000 (Shodan); also when the batch added no record.
C28_OrderedAfterSave ==
    \A r \in Runs, src \in {"rss", "shodan"} :
        Pending(r, src) =>
            \A batch \in Batches(src), outcome \in SaveOutcomes :
                LET after == PersistedAfter(r, src, batch, outcome)
                IN ~Raises(batch) =>
                    /\ Ordered(after)
                    /\ KeepsOrder(after, Merged(src, existing[r], batch))
                    /\ Len(after) <= RetentionCap(src)

\* C28, amended: the same, for the calls whose save writes the file.
C28_OrderedAfterWrittenSave ==
    \A r \in Runs, src \in {"rss", "shodan"} :
        Pending(r, src) =>
            \A batch \in Batches(src) :
                LET after == PersistedAfter(r, src, batch, "written")
                IN ~Raises(batch) =>
                    /\ Ordered(after)
                    /\ KeepsOrder(after, Merged(src, existing[r], batch))
                    /\ Len(after) <= RetentionCap(src)

\* process_shodan_data appended nothing and its save wrote two records, the
\* MITRE technique with the greater date before the Shodan record
C28_Witness ==
    /\ last.op = "shodan" /\ last.outcome = "written" /\ last.appended = 0
    /\ Len(PersistedThreats) = 2
    /\ PersistedThreats[1].source = "MITRE ATT&CK"
    /\ PersistedThreats[2].source = "Shodan"
    /\ LexLess(PersistedThreats[2].date, PersistedThreats[1].date)


\* the step is a call of process_mitre_data by run r
MitreCall(r) == pc[r] = "mitre" /\ phase[r] = "merge" /\ phase'[r] = "fetch"

\* the actors file after a save of the merged catalog that ends in outcome
CatalogSaved(outcome) ==
    _save_json_file(actorsFile, actors_merge(_load_json_file(actorsFile), known_actors),
                    outcome)

HasTotals(stats) == Cardinality(DOMAIN stats) = 3

\* C30: for every state of the store with its three files, total_threats, total_actors and
\* total_tools of the dashboard home page are the numbers of records of the
\* persisted threats, actors and tools collections, and are the values the
\* statistics API returns.
C30_TotalsAgree ==
    LET home == index_response(threatsFile, actorsFile, toolsFile).body.stats
        api == api_stats_response(threatsFile, actorsFile, toolsFile)
    IN (threatsFile # Absent /\ actorsFile # Absent /\ toolsFile # Absent) =>
          /\ HasTotals(home)
          /\ home.total_threats = Len(PersistedThreats)
          /\ home.total_actors = Len(PersistedActors)
          /\ home.total_tools = Len(PersistedTools)
          /\ api.status = 200
          /\ home.total_threats = api.body.total_threats
          /\ home.total_actors = api.body.total_actors
          /\ home.total_tools = api.body.total_tools

====
